---------------------------- MODULE Spec2Model ----------------------------
(***************************************************************************)
(* Model of the todo HTTP API of src/main.go: five gin handlers, each      *)
(* issuing one SQL statement against the MySQL table `todos` created by    *)
(* the schema script at the end of the source.                             *)
(*                                                                         *)
(* Integer widths are scaled down so that the model checker can enumerate  *)
(* them: the MySQL INT column (32 bits in the program) ranges over         *)
(* -(ColumnIntMax+1) .. ColumnIntMax and Go's int64 over                   *)
(* -(Int64Max+1) .. Int64Max, with ColumnIntMax < Int64Max as in the       *)
(* program.  Strings longer than VARCHAR(255) are not modelled.            *)
(***************************************************************************)
EXTENDS Integers, Sequences, FiniteSets, TLC

\* The field names of the records of this module, in the order in which
\* every record below lists its fields.
FieldNames ==
    DOMAIN [autoInc |-> 0, body |-> 0, changed |-> 0, cnt |-> 0,
            created |-> 0, dbFail |-> 0, detail |-> 0, done |-> 0, err |-> 0,
            existed |-> 0, fields |-> 0, gone |-> 0, id |-> 0, ids |-> 0, lastInsertId |-> 0,
            memo |-> 0, message |-> 0, ok |-> 0, op |-> 0, path |-> 0,
            pc |-> 0, point |-> 0, req |-> 0, resp |-> 0, rows |-> 0,
            sawRow |-> 0, status |-> 0, strict |-> 0, syntaxOk |-> 0,
            t |-> 0, title |-> 0, todo |-> 0, v |-> 0, val |-> 0,
            valid |-> 0]

\* Largest value of a MySQL INT column (id, point), scaled.
ColumnIntMax == 3
\* Largest value of Go's int64 (Todo.Id, Todo.Point), scaled.
Int64Max == 7
\* Number of requests the HTTP server handles at the same time (ConcSpec).
MaxInFlight == 2

VARIABLES
    rows,           \* table todos: id -> [detail, done, point, title]
    autoInc,        \* the table's AUTO_INCREMENT counter
    strictMode,     \* the server's sql_mode is strict (the DSN sets none)
    req,            \* the request answered last
    resp,           \* its response
    everIds,        \* history: every id that was ever a row of the table
    lastCreatedId,  \* history: id of the last 201 response (0: none yet)
    pre,            \* history: the ids of the table before the last request,
                    \* and the ids whose row the request added, removed
                    \* or changed
    lastCreate,     \* history: the last 201 response, until a PUT or DELETE
                    \* names or changes its row
    inflight        \* ConcSpec: the requests being handled, one per worker

vars == <<rows, autoInc, strictMode, req, resp, everIds, lastCreatedId,
          pre, lastCreate, inflight>>

-----------------------------------------------------------------------------
(* The record type and the JSON codec                                      *)

TodoFields == {"detail", "done", "id", "point", "title"}

\* A Go `var newTodo Todo`: every field at its zero value.
Todo == [detail |-> "", done |-> FALSE, id |-> 0, point |-> 0, title |-> ""]

JsonString(s) == [t |-> "string", v |-> s]
JsonNumber(n) == [t |-> "number", v |-> n]
JsonBool(b) == [t |-> "bool", v |-> b]

\* The JSON type encoding/json accepts for each field of Todo.
FieldType(f) == IF f \in {"id", "point"} THEN "number"
                ELSE IF f = "done" THEN "bool" ELSE "string"

InInt64(n) == n >= -(Int64Max + 1) /\ n <= Int64Max

\* encoding/json accepts the value of field f of the body for Todo's field.
FieldDecodes(body, f) ==
    LET x == body.fields[f]
    IN  /\ x.t = FieldType(f)
        /\ (x.t = "number" => InInt64(x.v))

\* ctx.BindJSON(&todo): the fields the body carries overwrite those of todo,
\* the others keep the value todo had, unknown fields are ignored.
BindJSON(todo, body) ==
    IF \/ ~body.syntaxOk
       \/ \E f \in TodoFields \cap DOMAIN body.fields : ~FieldDecodes(body, f)
    THEN [err |-> TRUE, todo |-> todo]
    ELSE [err |-> FALSE,
          todo |-> [detail |-> IF "detail" \in DOMAIN body.fields
                               THEN body.fields.detail.v ELSE todo.detail,
                    done |-> IF "done" \in DOMAIN body.fields
                             THEN body.fields.done.v ELSE todo.done,
                    id |-> IF "id" \in DOMAIN body.fields
                           THEN body.fields.id.v ELSE todo.id,
                    point |-> IF "point" \in DOMAIN body.fields
                              THEN body.fields.point.v ELSE todo.point,
                    title |-> IF "title" \in DOMAIN body.fields
                              THEN body.fields.title.v ELSE todo.title]]

\* The request bodies of the model.

\* A body like that of the test commands in main: all four fields, point
\* the largest value an INT column holds.
FullBody == [fields |-> [detail |-> JsonString("b"), done |-> JsonBool(TRUE),
                         point |-> JsonNumber(ColumnIntMax),
                         title |-> JsonString("a")],
             syntaxOk |-> TRUE]

\* A body with an id of its own, an unknown field, and nothing else.
IdBody == [fields |-> [id |-> JsonNumber(1), memo |-> JsonString("x")],
           syntaxOk |-> TRUE]

\* A body whose point is an int64 that no INT column holds.
BigPointBody == [fields |-> [detail |-> JsonString("b"),
                             done |-> JsonBool(TRUE),
                             point |-> JsonNumber(ColumnIntMax + 1),
                             title |-> JsonString("a")],
                 syntaxOk |-> TRUE]

\* JSON of the wrong shape: a number for title, a point that is no int64.
BadTypeBody == [fields |-> [point |-> JsonNumber(Int64Max + 1),
                            title |-> JsonNumber(5)],
                syntaxOk |-> TRUE]

\* Not JSON at all (an empty body included).
NotJson == [fields |-> [title |-> JsonString("a")], syntaxOk |-> FALSE]

\* A request names its body; BodyOf gives the JSON text behind the name.
Bodies == {"full", "id", "bigpoint", "badtype", "notjson"}

BodyOf(name) ==
    CASE name = "full" -> FullBody
      [] name = "id" -> IdBody
      [] name = "bigpoint" -> BigPointBody
      [] name = "badtype" -> BadTypeBody
      [] OTHER -> NotJson

\* Bodies that BindJSON accepts.
ValidBodies == {"full", "id", "bigpoint"}

-----------------------------------------------------------------------------
(* strconv.ParseInt(s, 10, 64) on a path segment, a sequence of characters *)

Digits == <<"0", "1", "2", "3", "4", "5", "6", "7", "8", "9">>

IsDigit(c) == \E i \in DOMAIN Digits : Digits[i] = c

DigitVal(c) == (CHOOSE i \in DOMAIN Digits : Digits[i] = c) - 1

\* The cutoff of ParseUint: past it the value is out of range whatever follows.
RECURSIVE ParseUint(_, _)
ParseUint(s, acc) ==
    IF s = <<>> THEN acc
    ELSE IF acc > Int64Max + 1 THEN acc
    ELSE ParseUint(Tail(s), acc * 10 + DigitVal(Head(s)))

\* A parse that accepts anything: what is no int64 reads as 0.
ParseIntLenient(s) ==
    LET neg == s # <<>> /\ Head(s) = "-"
        body == IF s # <<>> /\ Head(s) \in {"+", "-"} THEN Tail(s) ELSE s
        syntaxOk == body # <<>> /\ \A i \in DOMAIN body : IsDigit(body[i])
        un == IF syntaxOk THEN ParseUint(body, 0) ELSE 0
        inRange == IF neg THEN un <= Int64Max + 1 ELSE un <= Int64Max
    IN  [ok |-> TRUE,
         val |-> IF ~(syntaxOk /\ inRange) THEN 0
                 ELSE IF neg THEN -un ELSE un]

ParseInt(s) ==
    LET neg == s # <<>> /\ Head(s) = "-"
        body == IF s # <<>> /\ Head(s) \in {"+", "-"} THEN Tail(s) ELSE s
        syntaxOk == body # <<>> /\ \A i \in DOMAIN body : IsDigit(body[i])
        un == IF syntaxOk THEN ParseUint(body, 0) ELSE 0
        inRange == IF neg THEN un <= Int64Max + 1 ELSE un <= Int64Max
    IN  IF syntaxOk /\ inRange
        THEN [ok |-> TRUE, val |-> IF neg THEN -un ELSE un]
        ELSE [ok |-> FALSE, val |-> 0]

-----------------------------------------------------------------------------
(* The table and the SQL statements                                        *)

\* The row the schema script inserts.
SeedRow == [detail |-> "test_detail", done |-> FALSE, point |-> 0,
            title |-> "test_title"]

InColumn(n) == n >= -(ColumnIntMax + 1) /\ n <= ColumnIntMax

\* An out-of-range value stored in an INT column without strict mode.
ClampColumn(n) == IF n > ColumnIntMax THEN ColumnIntMax
                  ELSE IF n < -(ColumnIntMax + 1) THEN -(ColumnIntMax + 1)
                  ELSE n

\* The columns title, detail, point, done as the statement stores them.
RowOf(todo) == [detail |-> todo.detail, done |-> todo.done,
                point |-> ClampColumn(todo.point), title |-> todo.title]

\* The id of the next row taken from the rows of the table: max(id) + 1.
NextIdMaxPlusOne(db) ==
    IF DOMAIN db.rows = {} THEN 1
    ELSE (CHOOSE m \in DOMAIN db.rows : \A i \in DOMAIN db.rows : i <= m) + 1

\* The id AUTO_INCREMENT gives the next inserted row.
NextId(db) == db.autoInc

\* db.Exec("INSERT INTO todos(title, detail, point, done) VALUES(?, ?, ?, ?)")
\* fails when the storage fails, in strict mode when point does not fit its
\* column, and when the ids of the INT primary key are used up.
ExecInsert(db, todo, dbFail) ==
    LET id == NextId(db)
    IN  IF \/ dbFail
           \/ db.strict /\ ~InColumn(todo.point)
           \/ id > ColumnIntMax
           \/ id \in DOMAIN db.rows
        THEN [autoInc |-> db.autoInc, err |-> TRUE, lastInsertId |-> 0,
              rows |-> db.rows]
        ELSE [autoInc |-> id + 1, err |-> FALSE, lastInsertId |-> id,
              rows |-> [i \in DOMAIN db.rows \cup {id} |->
                          IF i = id THEN RowOf(todo) ELSE db.rows[i]]]

\* db.Exec("UPDATE todos SET title = ?, detail = ?, point = ?, done = ?
\* WHERE id = ?"): the DSN does not set clientFoundRows, so RowsAffected
\* counts the rows the statement changed, not the rows it matched.
ExecUpdate(db, todo, dbFail) ==
    IF dbFail THEN [cnt |-> 0, err |-> TRUE, rows |-> db.rows]
    ELSE IF todo.id \notin DOMAIN db.rows
    THEN [cnt |-> 0, err |-> FALSE, rows |-> db.rows]
    ELSE IF db.strict /\ ~InColumn(todo.point)
    THEN [cnt |-> 0, err |-> TRUE, rows |-> db.rows]
    ELSE IF db.rows[todo.id] = RowOf(todo)
    THEN [cnt |-> 0, err |-> FALSE, rows |-> db.rows]
    ELSE [cnt |-> 1, err |-> FALSE,
          rows |-> [db.rows EXCEPT ![todo.id] = RowOf(todo)]]

\* db.Exec("DELETE FROM todos WHERE id = ?", id)
ExecDelete(db, id, dbFail) ==
    IF dbFail THEN [cnt |-> 0, err |-> TRUE, rows |-> db.rows]
    ELSE IF id \in DOMAIN db.rows
    THEN [cnt |-> 1, err |-> FALSE,
          rows |-> [i \in DOMAIN db.rows \ {id} |-> db.rows[i]]]
    ELSE [cnt |-> 0, err |-> FALSE, rows |-> db.rows]

\* A row of the table scanned into a Todo.
Scan(db, id) == [detail |-> db.rows[id].detail, done |-> db.rows[id].done,
                 id |-> id, point |-> db.rows[id].point,
                 title |-> db.rows[id].title]

\* The ids of the table in the order SELECT * returns them (primary key).
RECURSIVE SortedIds(_)
SortedIds(S) ==
    IF S = {} THEN <<>>
    ELSE LET m == CHOOSE x \in S : \A y \in S : x <= y
         IN  <<m>> \o SortedIds(S \ {m})

-----------------------------------------------------------------------------
(* The handlers: the response and the table after the request              *)

Message(m) == [message |-> m]

\* A response that leaves the table as it is.
Reply(status, body, db) ==
    [autoInc |-> db.autoInc, body |-> body, rows |-> db.rows,
     status |-> status]

createTodo(db, r) ==
    LET bound == BindJSON(Todo, BodyOf(r.body))
        res == ExecInsert(db, bound.todo, r.dbFail)
    IN  IF bound.err THEN Reply(400, Message("body must be todo's json"), db)
        ELSE IF res.err THEN Reply(500, Message("fail to create todo"), db)
        ELSE [autoInc |-> res.autoInc,
              body |-> [bound.todo EXCEPT !.id = res.lastInsertId],
              rows |-> res.rows, status |-> 201]

listTodos(db, r) ==
    IF r.dbFail THEN Reply(500, Message("fail to exec query"), db)
    ELSE LET ids == SortedIds(DOMAIN db.rows)
         IN  Reply(200, [k \in DOMAIN ids |-> Scan(db, ids[k])], db)

\* row.Scan's error answers 404 whatever the error is.
getTodo(db, r) ==
    LET id == ParseInt(r.path)
    IN  IF ~id.ok
        THEN Reply(400, Message("id must can parse string to int64"), db)
        ELSE IF r.dbFail \/ id.val \notin DOMAIN db.rows
        THEN Reply(404, Message("not exists id"), db)
        ELSE Reply(200, Scan(db, id.val), db)

\* newTodo.Id is set from the path, then BindJSON decodes the body into the
\* same newTodo.
updateTodo(db, r) ==
    LET id == ParseInt(r.path)
        bound == BindJSON([Todo EXCEPT !.id = id.val], BodyOf(r.body))
        res == ExecUpdate(db, bound.todo, r.dbFail)
    IN  IF ~id.ok
        THEN Reply(400, Message("id must can parse string to int64"), db)
        ELSE IF bound.err
        THEN Reply(400, Message("body must be todo's json"), db)
        ELSE IF res.err THEN Reply(500, Message("fail to exec query"), db)
        ELSE IF res.cnt = 0 THEN Reply(404, Message("not exists id"), db)
        ELSE [autoInc |-> db.autoInc, body |-> bound.todo,
              rows |-> res.rows, status |-> 200]

deleteTodo(db, r) ==
    LET id == ParseInt(r.path)
        res == ExecDelete(db, id.val, r.dbFail)
    IN  IF ~id.ok
        THEN Reply(400, Message("id must can parse string to int64"), db)
        ELSE IF res.err THEN Reply(500, Message("fail to exec query"), db)
        ELSE IF res.cnt = 0 THEN Reply(404, Message("not exists id"), db)
        ELSE [autoInc |-> db.autoInc, body |-> [id |-> id.val],
              rows |-> res.rows, status |-> 200]

\* The router: the handler bound to the request's method and path.
Route(db, r) ==
    CASE r.op = "create" -> createTodo(db, r)
      [] r.op = "list" -> listTodos(db, r)
      [] r.op = "get" -> getTodo(db, r)
      [] r.op = "update" -> updateTodo(db, r)
      [] r.op = "delete" -> deleteTodo(db, r)

-----------------------------------------------------------------------------
(* Requests                                                                *)

\* Path segments that are ids: every id the table can hold.
GoodSegs == {<<Digits[i + 1]>> : i \in 1..ColumnIntMax}

\* Path segments that are no int64: not a number, and out of range.
BadSegs == {<<"x">>, <<"9", "9">>}

PathSegs == GoodSegs \cup BadSegs

NoPath == <<>>

Request(op, path, body, dbFail) ==
    [body |-> body, dbFail |-> dbFail, op |-> op, path |-> path]

NoRequest == Request("none", NoPath, "notjson", FALSE)

NoResponse == [body |-> Message(""), status |-> 0]

NoCreate == [todo |-> Todo, valid |-> FALSE]

Workers == 1..MaxInFlight

Idle == [existed |-> FALSE, pc |-> "idle", req |-> NoRequest,
         resp |-> NoResponse, sawRow |-> FALSE]

\* The database as the handlers see it.
db == [autoInc |-> autoInc, rows |-> rows, strict |-> strictMode]

\* The id a request's path names (0 when it names none).
PathId(r) == ParseInt(r.path).val

-----------------------------------------------------------------------------
(* The state machine: requests handled one after the other                 *)

\* The table after the schema script: one row, id 1.
Init ==
    /\ rows = [i \in {1} |-> SeedRow]
    /\ autoInc = 2
    /\ strictMode \in BOOLEAN
    /\ req = NoRequest
    /\ resp = NoResponse
    /\ everIds = {1}
    /\ lastCreatedId = 0
    /\ pre = [autoInc |-> 2, changed |-> {}, created |-> 0, gone |-> {},
              ids |-> {1}]
    /\ lastCreate = NoCreate
    /\ inflight = [w \in Workers |-> Idle]

\* The ids whose row is in one of the tables only, or differs between them.
Changed(old, new) ==
    {i \in DOMAIN old \cup DOMAIN new :
        \/ i \notin DOMAIN old
        \/ i \notin DOMAIN new
        \/ old[i] # new[i]}

\* Request r, answered with out, is a PUT or DELETE that names the row of
\* the last create or changes it.
Touches(r, out) ==
    /\ r.op \in {"update", "delete"}
    /\ \/ PathId(r) = lastCreate.todo.id
       \/ lastCreate.todo.id \in Changed(rows, out.rows)

\* Requests do not overlap: none is being handled when one arrives.
NoneInFlight == \A w \in Workers : inflight[w].pc = "idle"

\* One request handled from its arrival to its response.
Serve(r) ==
    \E out \in {Route(db, r)} :
        /\ rows' = out.rows
        /\ autoInc' = out.autoInc
        /\ req' = r
        /\ resp' = [body |-> out.body, status |-> out.status]
        /\ everIds' = everIds \cup DOMAIN out.rows
        /\ lastCreatedId' = IF r.op = "create" /\ out.status = 201
                            THEN out.body.id ELSE lastCreatedId
        /\ pre' = [autoInc |-> autoInc, changed |-> Changed(rows, out.rows),
                   created |-> lastCreatedId,
                   gone |-> everIds \ DOMAIN rows, ids |-> DOMAIN rows]
        /\ lastCreate' = IF r.op = "create" /\ out.status = 201
                         THEN [todo |-> out.body, valid |-> TRUE]
                         ELSE IF lastCreate.valid /\ Touches(r, out)
                         THEN NoCreate
                         ELSE lastCreate
        /\ UNCHANGED <<strictMode, inflight>>

\* POST /todos
PostTodos ==
    \E b \in Bodies, f \in BOOLEAN :
        /\ NoneInFlight
        /\ Serve(Request("create", NoPath, b, f))

\* GET /todos
GetTodos ==
    \E f \in BOOLEAN :
        /\ NoneInFlight
        /\ Serve(Request("list", NoPath, "notjson", f))

\* GET /todos/:id
GetTodoById ==
    \E p \in PathSegs, f \in BOOLEAN :
        /\ NoneInFlight
        /\ Serve(Request("get", p, "notjson", f))

\* PUT /todos/:id
PutTodoById ==
    \E p \in PathSegs, b \in Bodies, f \in BOOLEAN :
        /\ NoneInFlight
        /\ Serve(Request("update", p, b, f))

\* DELETE /todos/:id
DeleteTodoById ==
    \E p \in PathSegs, f \in BOOLEAN :
        /\ NoneInFlight
        /\ Serve(Request("delete", p, "notjson", f))

Next ==
    \/ PostTodos
    \/ GetTodos
    \/ GetTodoById
    \/ PutTodoById
    \/ DeleteTodoById

Spec == Init /\ [][Next]_vars

-----------------------------------------------------------------------------
(* The state machine: requests handled concurrently.  A handler touches    *)
(* shared state only in its one SQL statement, which the database runs     *)
(* atomically; the steps of a request are its arrival, its statement and   *)
(* its response.                                                           *)

ConcRequests ==
    {Request("create", NoPath, "full", FALSE)}
    \cup {Request("delete", p, "notjson", FALSE) : p \in {<<"1">>, <<"2">>}}
    \cup {Request("update", p, b, FALSE) :
            p \in {<<"1">>, <<"2">>}, b \in {"full", "id"}}

Receive(w) ==
    /\ inflight[w].pc = "idle"
    /\ \E r \in ConcRequests :
          inflight' = [inflight EXCEPT ![w] =
                          [existed |-> PathId(r) \in DOMAIN rows,
                           pc |-> "received", req |-> r,
                           resp |-> NoResponse, sawRow |-> FALSE]]
    /\ UNCHANGED <<rows, autoInc, strictMode, req, resp, everIds,
                   lastCreatedId, pre, lastCreate>>

Execute(w) ==
    /\ inflight[w].pc = "received"
    /\ \E out \in {Route(db, inflight[w].req)} :
          /\ rows' = out.rows
          /\ autoInc' = out.autoInc
          /\ everIds' = everIds \cup DOMAIN out.rows
          /\ inflight' = [inflight EXCEPT ![w] =
                             [existed |-> inflight[w].existed,
                              pc |-> "executed", req |-> inflight[w].req,
                              resp |-> [body |-> out.body,
                                        status |-> out.status],
                              sawRow |-> PathId(inflight[w].req)
                                            \in DOMAIN rows]]
    /\ UNCHANGED <<strictMode, req, resp, lastCreatedId, pre, lastCreate>>

Respond(w) ==
    /\ inflight[w].pc = "executed"
    /\ req' = inflight[w].req
    /\ resp' = inflight[w].resp
    /\ inflight' = [inflight EXCEPT ![w] = Idle]
    /\ UNCHANGED <<rows, autoInc, strictMode, everIds, lastCreatedId, pre,
                   lastCreate>>

ConcNext == \E w \in Workers : Receive(w) \/ Execute(w) \/ Respond(w)

ConcSpec == Init /\ [][ConcNext]_vars

-----------------------------------------------------------------------------
(* Properties of the handlers, requests handled one after the other (Spec). *)
(* In a state of Spec, req is the request handled last, resp its response,  *)
(* pre.ids the ids the request found in the table, pre.gone the ids it      *)
(* found deleted, pre.autoInc the table's counter and pre.created the id of *)
(* the last 201 as the request found them, and pre.changed the ids whose    *)
(* row it added, removed or changed.                                        *)

IdMessage == Message("id must can parse string to int64")

\* C1: for a PUT with a parseable path id p and a valid body, only the row
\* with id p can change, no row's id changes, and a 200 response carries
\* id = p: an id in the body is ignored.
C1_PathIdAuthoritative ==
    (req.op = "update" /\ req.path \in GoodSegs /\ req.body \in ValidBodies)
    => /\ pre.changed \subseteq {PathId(req)}
       /\ DOMAIN rows = pre.ids
       /\ (resp.status = 200 => resp.body.id = PathId(req))

\* C2: a PUT with a valid body on an existing id returns 200 with the
\* resulting record, and 404 is returned only when no row has that id; so
\* the same PUT sent again, or a PUT of the values already stored, returns
\* the same 200 response and leaves the table as it is.  (Stated for the
\* body that has no id of its own and whose values fit the columns.)
C2_UpdateIdempotent ==
    (req.op = "update" /\ req.path \in GoodSegs /\ req.body = "full"
        /\ ~req.dbFail)
    => /\ (PathId(req) \in pre.ids
             => /\ resp.status = 200
                /\ resp.body.id = PathId(req)
                /\ rows[PathId(req)] = RowOf(resp.body))
       /\ (resp.status = 404 => PathId(req) \notin pre.ids)

\* A request whose input the handler accepts.
ValidInput(r) ==
    /\ r.op \in {"create", "update"} => r.body \in ValidBodies
    /\ r.op \in {"get", "update", "delete"} => r.path \in GoodSegs

\* C3: in every handler a storage failure on a request with valid input
\* yields 500, never 404 or a success status.
C3_StorageFailureIs500 ==
    (req.op # "none" /\ req.dbFail /\ ValidInput(req)) => resp.status = 500

\* C4: every stored Todo has a non-empty title.
C4_TitleNonEmpty == \A i \in DOMAIN rows : rows[i].title # ""

\* C5: the id of a 201 response is the one storage assigns (the table's
\* counter, whatever id the body carries), was never the id of a row, and
\* is greater than the id of every earlier 201 response, also after deletes.
C5_CreatedIdFresh ==
    (req.op = "create" /\ resp.status = 201)
    => /\ resp.body.id = pre.autoInc
       /\ resp.body.id \notin pre.ids \cup pre.gone
       /\ resp.body.id > pre.created
       /\ DOMAIN rows = pre.ids \cup {resp.body.id}

\* C5 witness: a second create succeeded after a delete, with a body that
\* carries an id of its own.
C5_Witness ==
    /\ req.op = "create" /\ req.body = "id" /\ resp.status = 201
    /\ resp.body.id > 2
    /\ everIds \ DOMAIN rows # {}

\* C6: a GET of the id a create returned, with no PUT or DELETE of that id
\* since, answers 200 with the record of the create's 201 response, field
\* for field, for every int64 point.
C6_CreateGetRoundTrip ==
    (req.op = "get" /\ req.path \in GoodSegs /\ ~req.dbFail
        /\ lastCreate.valid /\ lastCreate.todo.id = PathId(req))
    => resp.status = 200 /\ resp.body = lastCreate.todo

\* C7: a PUT with a valid body on an id that has no row returns 404 and
\* leaves the table as it is.
C7_UpdateMissingIs404 ==
    (req.op = "update" /\ req.path \in GoodSegs /\ PathId(req) \notin pre.ids
        /\ req.body \in ValidBodies /\ ~req.dbFail)
    => resp.status = 404 /\ pre.changed = {}

\* C8: a DELETE of an existing id returns 200 with {id} and removes that row
\* only; a DELETE, GET or PUT of an id deleted before returns 404 and leaves
\* the table as it is; and a deleted id never has a row again.
C8_DeleteTwice ==
    /\ (req.op = "delete" /\ req.path \in GoodSegs /\ ~req.dbFail
           /\ PathId(req) \in pre.ids)
       => /\ resp.status = 200
          /\ resp.body = [id |-> PathId(req)]
          /\ pre.changed = {PathId(req)}
          /\ PathId(req) \notin DOMAIN rows
    /\ (req.op \in {"get", "update", "delete"} /\ req.path \in GoodSegs
           /\ ~req.dbFail /\ PathId(req) \in pre.gone
           /\ (req.op = "update" => req.body \in ValidBodies))
       => resp.status = 404 /\ pre.changed = {}
    /\ pre.gone \cap DOMAIN rows = {}

\* C9: for get, update and delete a path id that is no int64 yields 400 with
\* the message of the id check, whatever the body and whether or not storage
\* fails, and the table is left as it is.
C9_BadIdIs400 ==
    (req.op \in {"get", "update", "delete"} /\ req.path \in BadSegs)
    => /\ resp.status = 400
       /\ resp.body = IdMessage
       /\ pre.changed = {}
       /\ DOMAIN rows = pre.ids

\* C9 witness: a PUT with a bad path id, a body that is no JSON and a failing
\* storage was answered 400, on a table that requests have changed.
C9_Witness ==
    /\ req.op = "update" /\ req.path \in BadSegs /\ req.body = "notjson"
    /\ req.dbFail
    /\ resp.status = 400
    /\ DOMAIN rows # {1}

-----------------------------------------------------------------------------
(* Properties of concurrent requests (ConcSpec)                            *)

\* Workers d and u hold a DELETE and a PUT (or DELETE) of the same id, both
\* arrived while its row existed, and both have run their statement.
Raced(d, u, op) ==
    /\ d # u
    /\ inflight[d].pc = "executed" /\ inflight[u].pc = "executed"
    /\ inflight[d].req.op = "delete" /\ inflight[u].req.op = op
    /\ inflight[d].req.path = inflight[u].req.path
    /\ inflight[d].existed /\ inflight[u].existed

\* C10: of two concurrent deletes of an existing id one returns 200 and the
\* other 404; a concurrent delete and update of it answer as some serial
\* order does, the update 200 only if its statement found the row and 404
\* otherwise, and the row is gone once both have run.
C10_ConcurrentDeleteUpdate ==
    \A d, u \in Workers :
        /\ Raced(d, u, "delete")
              => {inflight[d].resp.status, inflight[u].resp.status}
                     = {200, 404}
        /\ Raced(d, u, "update")
              => /\ << inflight[d].resp.status, inflight[u].resp.status >>
                        \in {<<200, 404>>, <<200, 200>>}
                 /\ inflight[u].resp.status = 200 => inflight[u].sawRow
                 /\ ~inflight[u].sawRow => inflight[u].resp.status = 404
                 /\ PathId(inflight[d].req) \notin DOMAIN rows

=============================================================================
